---- MODULE Spec2Model ----
(***************************************************************************)
(* Model of simple_app.py: the batch builder SimpleSmartBatching.process,  *)
(* the schedule walk of SimpleVisualizer.plot_gantt, the comparison        *)
(* arithmetic of SimpleVisualizer.plot_comparison, and the Streamlit       *)
(* script that keeps the order list in st.session_state.                   *)
(*                                                                         *)
(* Two specifications share the variables:                                 *)
(*   Spec     the pipeline process -> plot_gantt -> plot_comparison run on *)
(*            every order list of at most MaxOrders orders;                *)
(*   AppSpec  the script as wired: session initialisation, the reset       *)
(*            button, the add_order form and the processing branch.        *)
(*                                                                         *)
(* Times are integers in milliseconds (datetime/timedelta keep integer     *)
(* microseconds; every duration the program builds from an integer         *)
(* quantity is a whole number of milliseconds).                            *)
(***************************************************************************)
EXTENDS Integers, Sequences, FiniteSets, TLC

VARIABLES orders, pc, result, gantt, cmp, warned

vars == <<orders, pc, result, gantt, cmp, warned>>

(***************************** bounds **************************************)

\* longest order list handed to process under Spec
MaxOrders == 3

\* longest session order list under AppSpec (the add_order form stops there)
MaxSessionOrders == 5

(***************************** types ***************************************)

\* class PrintType
PrintType == {"COLOR", "BW"}

\* class PaperType
PaperType == {"PLAIN", "COATED", "RECYCLED"}

\* Order: the fields the program reads after construction.  machine_type,
\* roll_width, format, book_thickness and deadline are stored and never read.
Order(id, print_type, paper_type, quantity, priority) ==
    [id |-> id, print_type |-> print_type, paper_type |-> paper_type,
     quantity |-> quantity, priority |-> priority]

\* Batch
Batch(id, os, print_type, paper_type) ==
    [id |-> id, orders |-> os, print_type |-> print_type, paper_type |-> paper_type]

RECURSIVE SumQuantity(_)
SumQuantity(os) ==
    IF os = <<>> THEN 0 ELSE os[1].quantity + SumQuantity(Tail(os))

RECURSIVE SumPriority(_)
SumPriority(os) ==
    IF os = <<>> THEN 0 ELSE os[1].priority + SumPriority(Tail(os))

\* Batch.total_quantity
total_quantity(b) == SumQuantity(b.orders)

\* Batch.avg_priority is sum / len (0 for an empty batch); the program only
\* tests avg_priority > 0, which for len > 0 is the sign of the sum.
avg_priority_positive(b) ==
    IF b.orders # <<>> THEN SumPriority(b.orders) > 0 ELSE FALSE

(*************************** process ***************************************)

Digits == <<"0", "1", "2", "3", "4", "5", "6", "7", "8", "9">>

\* format(n, "04d") for 0 <= n <= 9999
Fmt04d(n) ==
    Digits[((n \div 1000) % 10) + 1] \o Digits[((n \div 100) % 10) + 1]
        \o Digits[((n \div 10) % 10) + 1] \o Digits[(n % 10) + 1]

BatchId(batch_id) == "BATCH-" \o Fmt04d(batch_id)

IsUrgent(o) == o.priority > 0

\* mutant: the test for an ordinary order lets urgent orders through
IsNormal_geq(o) == o.priority >= 0

IsNormal(o) == o.priority = 0

urgent(os) == SelectSeq(os, IsUrgent)

normal(os) == SelectSeq(os, IsNormal)

\* mutant: the filter reads all orders instead of the normal ones
same_type_all(os, print_type) ==
    SelectSeq(os, LAMBDA o : o.print_type = print_type)

\* mutant: the filter forgets the print type
same_type_any(os, print_type) == SelectSeq(os, LAMBDA o : o.priority = 0)

same_type(os, print_type) ==
    SelectSeq(normal(os), LAMBDA o : o.print_type = print_type)

\* mutant: monochrome first
PrintTypeOrder_rev == <<"BW", "COLOR">>

\* the order of the loop over print types
PrintTypeOrder == <<"COLOR", "BW">>

\* lines 64-72: acc = [batches, batch_id]
AppendUrgent(acc, os) ==
    IF urgent(os) # <<>>
    THEN [batches |-> Append(acc.batches,
                        Batch(BatchId(acc.batch_id), urgent(os),
                              urgent(os)[1].print_type, urgent(os)[1].paper_type)),
          batch_id |-> acc.batch_id + 1]
    ELSE acc

\* mutant: the batch is emitted without the test for an empty group
AppendType_unguarded(acc, os, print_type) ==
    [batches |-> Append(acc.batches,
                    Batch("BATCH", SelectSeq(os, LAMBDA o : o.priority = 0
                                                  /\ o.print_type = print_type),
                          print_type, "PLAIN")),
     batch_id |-> acc.batch_id + 1]

\* lines 77-85: one iteration of the loop over print types
AppendType(acc, os, print_type) ==
    IF same_type(os, print_type) # <<>>
    THEN [batches |-> Append(acc.batches,
                        Batch(BatchId(acc.batch_id), same_type(os, print_type),
                              print_type, same_type(os, print_type)[1].paper_type)),
          batch_id |-> acc.batch_id + 1]
    ELSE acc

RECURSIVE AppendTypes(_, _, _)
AppendTypes(acc, os, types) ==
    IF types = <<>> THEN acc
    ELSE AppendTypes(AppendType(acc, os, types[1]), os, Tail(types))

BuildBatches(os) ==
    AppendTypes(AppendUrgent([batches |-> <<>>, batch_id |-> 1], os),
                os, PrintTypeOrder).batches

Metrics(batches) ==
    [total_batches |-> Len(batches),
     total_changeovers |-> Len(batches) - 1,
     total_changeover_time_minutes |-> (Len(batches) - 1) * 20]

\* SimpleSmartBatching.process
process(os) ==
    [batches |-> BuildBatches(os),
     total_orders |-> Len(os),
     metrics |-> Metrics(BuildBatches(os))]

NoResult == [batches |-> <<>>, total_orders |-> -1,
             metrics |-> [total_batches |-> -1, total_changeovers |-> 0,
                          total_changeover_time_minutes |-> 0]]

(*************************** plot_gantt ************************************)

MsPerHour == 3600 * 1000

MsPerMinute == 60 * 1000

\* timedelta(hours=batch.total_quantity / 1000), in milliseconds: an hour per
\* 1000 units is MsPerHour / 1000 milliseconds per unit
Duration(b) == total_quantity(b) * (MsPerHour \div 1000)

\* timedelta(minutes=20), in milliseconds
Changeover == 20 * MsPerMinute

\* lines 125-130
BarColor(b) ==
    IF avg_priority_positive(b) THEN "urgent"
    ELSE IF b.print_type = "COLOR" THEN "COLOR" ELSE "BW"

\* values datetime.now() takes at line 110
RefTimes == {0, 7 * MsPerMinute}

NoGantt == [i |-> 0, now |-> 0, current_time |-> 0, y_pos |-> 0, bars |-> <<>>]

\* lines 107-111
GanttBegin ==
    /\ pc = "gantt"
    /\ \E now \in RefTimes :
         gantt' = [i |-> 0, now |-> now, current_time |-> now, y_pos |-> 0,
                   bars |-> <<>>]
    /\ pc' = "gantt_loop"
    /\ UNCHANGED <<orders, result, cmp, warned>>

\* the changeover bar of lines 117-122, drawn before every batch but the first
ChangeoverBars(g) ==
    IF g.i > 0
    THEN << [kind |-> "changeover", y |-> g.y_pos, left |-> g.current_time,
             width |-> Changeover, color |-> "grey"] >>
    ELSE <<>>

\* mutant: a changeover before the first batch too
AfterChangeover_always(g) == g.current_time + Changeover

\* current_time after lines 117-122
AfterChangeover(g) ==
    IF g.i > 0 THEN g.current_time + Changeover ELSE g.current_time

\* lines 113-141: one iteration of the loop over the batches
GanttIter ==
    /\ pc = "gantt_loop"
    /\ gantt.i < Len(result.batches)
    /\ LET batch == result.batches[gantt.i + 1]
           start == AfterChangeover(gantt)
       IN  gantt' = [gantt EXCEPT
                !.bars = gantt.bars \o ChangeoverBars(gantt) \o
                         << [kind |-> "batch", y |-> gantt.y_pos, left |-> start,
                             width |-> Duration(batch), color |-> BarColor(batch)] >>,
                !.current_time = start + Duration(batch),
                !.y_pos = gantt.y_pos + 1,
                !.i = gantt.i + 1]
    /\ UNCHANGED <<orders, pc, result, cmp, warned>>

\* lines 143-157: the loop is over, the figure is returned
GanttEnd ==
    /\ pc = "gantt_loop"
    /\ gantt.i = Len(result.batches)
    /\ pc' = "compare"
    /\ UNCHANGED <<orders, result, gantt, cmp, warned>>

(************************* plot_comparison *********************************)

\* format(num / den, ".0f") as an integer: round half to even, den # 0
RoundHalfEven(num, den) ==
    LET n == IF den < 0 THEN -num ELSE num
        d == IF den < 0 THEN -den ELSE den
        q == n \div d
        r == n % d
    IN  IF 2 * r < d THEN q
        ELSE IF 2 * r > d THEN q + 1
        ELSE IF q % 2 = 0 THEN q ELSE q + 1

NoCmp == [fifo_changeovers |-> 0, smart_changeovers |-> 0, fifo_time |-> 0,
          smart_time |-> 0, saved |-> 0, pct |-> 0, error |-> "none"]

\* lines 160-182: everything computed before the division
Comparison(res) ==
    [fifo_changeovers |-> res.total_orders - 1,
     smart_changeovers |-> res.metrics.total_changeovers,
     fifo_time |-> (res.total_orders - 1) * 20,
     smart_time |-> res.metrics.total_changeover_time_minutes,
     saved |-> (res.total_orders - 1) * 20 - res.metrics.total_changeover_time_minutes,
     pct |-> 0,
     error |-> "none"]

\* SimpleVisualizer.plot_comparison: line 183 divides by fifo_time
PlotComparison ==
    /\ pc = "compare"
    /\ LET c == Comparison(result)
       IN  IF c.fifo_time = 0
           THEN /\ cmp' = [c EXCEPT !.error = "ZeroDivisionError"]
                /\ pc' = "raised"
           ELSE /\ cmp' = [c EXCEPT !.pct = RoundHalfEven(c.saved * 100, c.fifo_time)]
                /\ pc' = "done"
    /\ UNCHANGED <<orders, result, gantt, warned>>

(***************************** Spec ****************************************)

\* priorities the form accepts (min_value=0): normal, and the least urgent one
Priorities == {0, 1}

Quantities == {1000, 2500}

InputPaper == {"PLAIN", "COATED"}

InputOrders ==
    { Order("ORDER", pt, pa, q, pr) :
        pt \in PrintType, pa \in InputPaper, q \in Quantities, pr \in Priorities }

OrderLists == UNION { [1..n -> InputOrders] : n \in 0..MaxOrders }

Init ==
    /\ orders \in OrderLists
    /\ pc = "process"
    /\ result = NoResult
    /\ gantt = NoGantt
    /\ cmp = NoCmp
    /\ warned = FALSE

\* line 245 with any order list
Process ==
    /\ pc = "process"
    /\ result' = process(orders)
    /\ pc' = "gantt"
    /\ UNCHANGED <<orders, gantt, cmp, warned>>

Next == Process \/ GanttBegin \/ GanttIter \/ GanttEnd \/ PlotComparison

Spec == Init /\ [][Next]_vars

(**************************** AppSpec **************************************)

\* lines 197-204 and 211-218
ExampleOrders ==
    << Order("URGENT", "BW", "RECYCLED", 15000, 2),
       Order("COLOR", "COLOR", "COATED", 5000, 0),
       Order("BW", "BW", "PLAIN", 7000, 0) >>

AppInit ==
    /\ orders = ExampleOrders
    /\ pc = "script"
    /\ result = NoResult
    /\ gantt = NoGantt
    /\ cmp = NoCmp
    /\ warned = FALSE

\* st.rerun(): the script starts over with fresh locals
Rerun ==
    /\ pc' = "script"
    /\ result' = NoResult
    /\ gantt' = NoGantt
    /\ cmp' = NoCmp
    /\ warned' = FALSE

\* mutant: the reset button empties the list
ResetExamples_clear ==
    /\ orders' = <<>>
    /\ Rerun

\* lines 210-219
ResetExamples ==
    /\ orders' = ExampleOrders
    /\ Rerun

\* what the form's widgets can hold: the default id or a typed one
FormIds(os) == {"ORDER-" \o ToString(Len(os) + 1), "URGENT"}

FormQuantities == {1000, 5000}

FormPriorities == {0, 1}

\* lines 222-240
AddOrder ==
    /\ Len(orders) < MaxSessionOrders
    /\ \E order_id \in FormIds(orders), print_type \in PrintType,
          quantity \in FormQuantities, priority \in FormPriorities :
         orders' = Append(orders,
                          Order(order_id, print_type, "PLAIN", quantity, priority))
    /\ Rerun

\* lines 243-280: the processing branch, or the warning
RunProcessing ==
    /\ pc = "script"
    /\ IF orders # <<>>
       THEN /\ result' = process(orders)
            /\ pc' = "gantt"
            /\ UNCHANGED warned
       ELSE /\ warned' = TRUE
            /\ pc' = "done"
            /\ UNCHANGED result
    /\ UNCHANGED <<orders, gantt, cmp>>

AppNext ==
    \/ ResetExamples \/ AddOrder \/ RunProcessing
    \/ GanttBegin \/ GanttIter \/ GanttEnd \/ PlotComparison

AppSpec == AppInit /\ [][AppNext]_vars

(************************** properties *************************************)

Range(seq) == { seq[i] : i \in DOMAIN seq }

Count(seq, v) == Cardinality({ i \in DOMAIN seq : seq[i] = v })

RECURSIVE Flatten(_)
Flatten(bs) == IF bs = <<>> THEN <<>> ELSE bs[1].orders \o Flatten(Tail(bs))

Max(a, b) == IF a >= b THEN a ELSE b

Min(a, b) == IF a <= b THEN a ELSE b

Processed == result # NoResult

Compared == pc \in {"done", "raised"} /\ Processed

NonNegative(os) == \A i \in DOMAIN os : os[i].priority >= 0

Member(b, o) == \E i \in DOMAIN b.orders : b.orders[i] = o

\* C1: when no input priority is negative, the orders of all returned batches
\* together are exactly the input orders, each as many times as in the input.
C1_PartitionComplete ==
    (Processed /\ NonNegative(orders)) =>
        /\ Len(Flatten(result.batches)) = Len(orders)
        /\ \A o \in Range(orders) \cup Range(Flatten(result.batches)) :
              Count(Flatten(result.batches), o) = Count(orders, o)

C1_Witness ==
    /\ Processed /\ NonNegative(orders)
    /\ Len(orders) = 3 /\ Len(result.batches) = 2
    /\ \E i \in DOMAIN orders : orders[i].priority > 0
    /\ \E i, j \in DOMAIN orders : i # j /\ orders[i] = orders[j]

\* C2: when some input order is urgent, the first batch holds all the urgent
\* orders and only urgent orders, it is the only batch that does, and no later
\* batch (the color batch in particular) holds an urgent order.
C2_UrgentPrecedence ==
    (Processed /\ \E i \in DOMAIN orders : orders[i].priority > 0) =>
        LET bs == result.batches
            OnlyUrgent(b) == \A i \in DOMAIN b.orders : b.orders[i].priority > 0
            AllUrgent(b) ==
                \A o \in Range(orders) :
                    o.priority > 0 => Count(b.orders, o) = Count(orders, o)
        IN  /\ { k \in DOMAIN bs : OnlyUrgent(bs[k]) /\ AllUrgent(bs[k]) } = {1}
            /\ \A k \in DOMAIN bs : \A i \in DOMAIN bs[k].orders :
                  bs[k].orders[i].priority > 0 => k = 1

C2_Witness ==
    /\ Processed
    /\ \E i \in DOMAIN orders :
          orders[i].priority > 0 /\ orders[i].print_type = "COLOR"
    /\ \E k \in DOMAIN result.batches :
          k > 1 /\ result.batches[k].print_type = "COLOR"

\* C3: after the comparison on a result of zero orders or one order, the
\* saved percentage is 0 and nothing was raised.
C3_ZeroDivisionGuard ==
    (Compared /\ result.total_orders <= 1) =>
        (pc = "done" /\ cmp.error = "none" /\ cmp.pct = 0)

\* C4: the metrics satisfy total_changeovers = max(total_batches - 1, 0) and
\* total_changeover_time_minutes = total_changeovers * 20; the empty list gives
\* 0 batches, 0 changeovers, 0 minutes.
C4_ChangeoverCount ==
    Processed =>
        LET m == result.metrics
        IN  /\ m.total_batches = Len(result.batches)
            /\ m.total_changeovers = Max(m.total_batches - 1, 0)
            /\ m.total_changeover_time_minutes = m.total_changeovers * 20
            /\ orders = <<>> =>
                  /\ m.total_batches = 0
                  /\ m.total_changeovers = 0
                  /\ m.total_changeover_time_minutes = 0

\* C5 as stated: in every batch all members have the batch's print_type.
C5_AllBatchesHomogeneous ==
    Processed =>
        \A k \in DOMAIN result.batches :
            \A i \in DOMAIN result.batches[k].orders :
                result.batches[k].orders[i].print_type = result.batches[k].print_type

\* C5 amended: every batch's print_type is its first member's print mode, and
\* in every batch that holds no urgent order all members have that print mode.
C5_NormalBatchesHomogeneous ==
    Processed =>
        \A k \in DOMAIN result.batches :
            LET b == result.batches[k]
            IN  /\ b.orders # <<>>
                /\ b.print_type = b.orders[1].print_type
                /\ (\A i \in DOMAIN b.orders : b.orders[i].priority <= 0) =>
                      \A i \in DOMAIN b.orders : b.orders[i].print_type = b.print_type

C5_Witness ==
    /\ Processed
    /\ \E k \in DOMAIN result.batches :
          LET b == result.batches[k]
          IN  /\ Len(b.orders) = 2
              /\ b.orders[1].priority = 0
              /\ b.orders[1].paper_type # b.orders[2].paper_type
    /\ \E i \in DOMAIN orders : orders[i].priority > 0

\* C6: with every priority 0, two orders share a batch iff they have the same
\* print mode, no monochrome order is batched before a color order, and no
\* batch is empty.
C6_TypeGrouping ==
    (Processed /\ \A i \in DOMAIN orders : orders[i].priority = 0) =>
        LET bs == result.batches
        IN  /\ \A i, j \in DOMAIN orders :
                  (\E k \in DOMAIN bs : Member(bs[k], orders[i]) /\ Member(bs[k], orders[j]))
                      <=> (orders[i].print_type = orders[j].print_type)
            /\ \A k, l \in DOMAIN bs :
                  (\E o \in Range(bs[k].orders) : o.print_type = "BW")
                  /\ (\E o \in Range(bs[l].orders) : o.print_type = "COLOR")
                      => l <= k
            /\ \A k \in DOMAIN bs : bs[k].orders # <<>>
            /\ Len(bs) = Cardinality({ orders[i].print_type : i \in DOMAIN orders })

C6_Witness ==
    /\ Processed
    /\ \A i \in DOMAIN orders : orders[i].priority = 0
    /\ Len(orders) = 3
    /\ orders[1].print_type = "BW"
    /\ orders[2].print_type = "COLOR"
    /\ Len(result.batches) = 2

BatchBars == SelectSeq(gantt.bars, LAMBDA bar : bar.kind = "batch")

\* C7: the bar of the first batch starts at the reference time; the bar of
\* each later batch starts 20 minutes after the end of the bar before it; a
\* bar lasts 3600 ms per unit of its batch's total quantity, so an hour for
\* 1000 units; bars do not overlap.
C7_SequentialSchedule ==
    (pc \in {"gantt_loop", "compare", "done", "raised"}) =>
        /\ Len(BatchBars) = gantt.i
        /\ pc # "gantt_loop" => Len(BatchBars) = Len(result.batches)
        /\ \A k \in DOMAIN BatchBars :
              LET q == SumQuantity(result.batches[k].orders)
              IN  /\ BatchBars[k].width = 3600 * q
                  /\ q = 1000 => BatchBars[k].width = 3600000
                  /\ k = 1 => BatchBars[k].left = gantt.now
                  /\ k > 1 =>
                        /\ BatchBars[k].left =
                              BatchBars[k-1].left + BatchBars[k-1].width + 1200000
                        /\ BatchBars[k-1].left + BatchBars[k-1].width <= BatchBars[k].left

C7_Witness ==
    /\ pc = "compare"
    /\ Len(BatchBars) = 3
    /\ gantt.now # 0
    /\ SumQuantity(result.batches[1].orders) = 1000
    /\ BatchBars[2].left = gantt.now + 3600000 + 1200000

\* C8: the comparison uses baseline_changeovers = max(total_orders - 1, 0),
\* baseline time = baseline_changeovers * 20, saved = baseline time - smart time.
C8_BaselineComparison ==
    Compared =>
        /\ cmp.fifo_changeovers = Max(Len(orders) - 1, 0)
        /\ cmp.fifo_time = cmp.fifo_changeovers * 20
        /\ cmp.saved = cmp.fifo_time - result.metrics.total_changeover_time_minutes

C10_SessionAtLeastThree ==
    /\ Len(orders) >= 3
    /\ Processed => result.total_orders >= 3
    /\ Compared => (cmp.fifo_time # 0 /\ cmp.fifo_changeovers >= 2)
    /\ pc # "raised"
    /\ cmp.error = "none"
    /\ warned = FALSE

C10_Witness ==
    /\ pc = "done"
    /\ Len(orders) = 5
    /\ orders[4].priority > 0
    /\ cmp.pct = 50

====
